---- MODULE Spec2Model ----
(***************************************************************************)
(* A model of the spectral-synthesis and fitting pipeline of SME            *)
(* (src/src/sme/solve.py): solve, residuals, jacobian, get_bounds,          *)
(* get_atmosphere and synthesize_spectrum, together with the calls they     *)
(* issue to the radiative-transfer engine.                                  *)
(*                                                                          *)
(* Parameter names are sequences of one-character strings, so that case     *)
(* folding, capitalisation and the "abund" suffix test are computed         *)
(* character by character as Python computes them.                          *)
(***************************************************************************)
EXTENDS Integers, Sequences, FiniteSets, TLC

VARIABLES
    pc,      \* where the caller is: "idle", inside least_squares, inside a jacobian
    sme,     \* Model State (the SME structure), mutated in place
    fattr,   \* function attributes: residuals.iteration, residuals.resid, get_atmosphere cache
    fit,     \* the frame of the running solve: fitted names, filename, segments, counters
    call,    \* the most recent Orchestrator call: its flags, its event log, its outcome
    outcome, \* how the last top-level call ended
    nn,      \* name normalisation: the raw list and its normalised form
    rr,      \* residual arithmetic: the input vectors and the returned vector
    pf       \* a numerical routine run on its own: its inputs and its result

vars == <<pc, sme, fattr, fit, call, outcome, nn, rr, pf>>

(***************************************************************************)
(* Bounds of the model.                                                     *)
(***************************************************************************)
NSeg == 2          \* segments of the Model State
MaxEvals == 3      \* non-Jacobian residual evaluations per solve (max_nfev)
MaxCalls == 2      \* top-level calls (solve or synthesize_spectrum) per behaviour
MaxNames == 3      \* length of a raw parameter-name list
MaxPts == 2        \* points of a residual vector

(***************************************************************************)
(* Characters and strings.                                                  *)
(***************************************************************************)
LowerChars == <<"a","b","c","d","e","f","g","h","i","j","k","l","m",
                "n","o","p","q","r","s","t","u","v","w","x","y","z">>
UpperChars == <<"A","B","C","D","E","F","G","H","I","J","K","L","M",
                "N","O","P","Q","R","S","T","U","V","W","X","Y","Z">>

IndexOf(seq, c) == CHOOSE i \in 1..Len(seq) : seq[i] = c
IsLower(c) == \E i \in 1..Len(LowerChars) : LowerChars[i] = c
IsUpper(c) == \E i \in 1..Len(UpperChars) : UpperChars[i] = c

\* the code point of a character: upper case before lower case, space and
\* digits before both
CodePoint(c) ==
    IF IsUpper(c) THEN 64 + IndexOf(UpperChars, c)
    ELSE IF IsLower(c) THEN 96 + IndexOf(LowerChars, c)
    ELSE IF c = " " THEN 32
    ELSE 48

\* str.casefold on one character (ASCII: lower-casing)
CharFold(c) == IF IsUpper(c) THEN LowerChars[IndexOf(UpperChars, c)] ELSE c
CharUpper(c) == IF IsLower(c) THEN UpperChars[IndexOf(LowerChars, c)] ELSE c

\* p.casefold()
Casefold(p) == [i \in 1..Len(p) |-> CharFold(p[i])]

\* p.capitalize(): first character upper case, the rest lower case
Capitalize(p) == [i \in 1..Len(p) |-> IF i = 1 THEN CharUpper(p[i]) ELSE CharFold(p[i])]

\* p[-5:]: the last five characters (the whole string when shorter)
Last5(p) == IF Len(p) <= 5 THEN p ELSE SubSeq(p, Len(p) - 4, Len(p))

S_abund == <<"a","b","u","n","d">>
S_grav == <<"g","r","a","v">>
S_logg == <<"l","o","g","g">>
S_feh == <<"f","e","h">>
S_monh == <<"m","o","n","h">>
S_teff == <<"t","e","f","f">>
S_vrad == <<"v","r","a","d">>
S_cont == <<"c","o","n","t">>
S_vmic == <<"v","m","i","c">>
S_vmac == <<"v","m","a","c">>
S_vsini == <<"v","s","i","n","i">>
S_Fe_abund == <<"F","e"," ","a","b","u","n","d">>

\* lexicographic order of strings by code point (the order np.unique sorts in)
RECURSIVE LexLess(_, _)
LexLess(a, b) ==
    IF Len(a) = 0 THEN Len(b) > 0
    ELSE IF Len(b) = 0 THEN FALSE
    ELSE IF CodePoint(Head(a)) # CodePoint(Head(b)) THEN CodePoint(Head(a)) < CodePoint(Head(b))
    ELSE LexLess(Tail(a), Tail(b))

(***************************************************************************)
(* solve: sanitising the parameter names (solve.py lines 325-335).          *)
(***************************************************************************)
\* param_names = [p.casefold() for p in param_names]
FoldNames(names) == [i \in DOMAIN names |-> Casefold(names[i])]

\* param_names = [p.capitalize() if p[-5:] == "abund" else p for p in param_names]
CapitalizeAbund(names) ==
    [i \in DOMAIN names |->
        IF Last5(names[i]) = S_abund THEN Capitalize(names[i]) ELSE names[i]]

\* param_names = [p if p != "grav" else "logg" for p in param_names]
GravToLogg(names) == [i \in DOMAIN names |-> IF names[i] # S_grav THEN names[i] ELSE S_logg]

\* param_names = [p if p != "feh" else "monh" for p in param_names]
FehToMonh(names) == [i \in DOMAIN names |-> IF names[i] # S_feh THEN names[i] ELSE S_monh]

SanitizeNames(names) == FehToMonh(GravToLogg(CapitalizeAbund(FoldNames(names))))

\* np.unique(param_names, return_index=True): the distinct values in sorted
\* order, and for each the index of its first occurrence in the input
RECURSIVE SortStrings(_)
SortStrings(S) ==
    IF S = {} THEN <<>>
    ELSE LET m == CHOOSE x \in S : \A y \in S \ {x} : LexLess(x, y)
         IN  <<m>> \o SortStrings(S \ {m})

UniqueValues(names) == SortStrings({names[i] : i \in DOMAIN names})

FirstIndex(names, u) ==
    CHOOSE i \in DOMAIN names : names[i] = u /\ \A j \in 1..(i - 1) : names[j] # u

UniqueIndex(names) ==
    [k \in DOMAIN UniqueValues(names) |-> FirstIndex(names, UniqueValues(names)[k])]

\* np.argsort(index): the positions of index in increasing order of value
Argsort(index) ==
    [k \in DOMAIN index |->
        CHOOSE j \in DOMAIN index :
            Cardinality({i \in DOMAIN index : index[i] < index[j]}) = k - 1]

\* the sorted values, not put back into their order of occurrence
UniqueNamesSortedOnly(names) == UniqueValues(names)

\* param_names, index = np.unique(...); param_names = param_names[np.argsort(index)]
UniqueNames(names) ==
    LET u == UniqueValues(names)
        p == Argsort(UniqueIndex(names))
    IN  [k \in DOMAIN u |-> u[p[k]]]

\* the parameter names of solve after line 335
NormalizeNames(names) == UniqueNames(SanitizeNames(names))

Contains(names, s) == \E i \in DOMAIN names : names[i] = s

(***************************************************************************)
(* The raw names a caller may pass, and the lists built from them.          *)
(***************************************************************************)
RawNames ==
    { S_teff, <<"T","e","f","f">>, S_logg, S_grav, <<"G","R","A","V">>,
      S_monh, S_feh, <<"F","e","h">>,
      <<"f","e"," ","a","b","u","n","d">>, <<"F","E"," ","A","B","U","N","D">> }

NameLists == UNION { [1..n -> RawNames] : n \in 0..MaxNames }

(***************************************************************************)
(* Segments, parameter points, intrinsic grids and engine events.           *)
(*                                                                          *)
(* A parameter point is [b, k]: b names the base point (0 for the starting  *)
(* values, n for the point of the optimizer's n-th trial step), k = 0 at    *)
(* the base point and k > 0 for the k-th perturbed point of a               *)
(* finite-difference Jacobian around it.  The engine is deterministic: the  *)
(* intrinsic grid it generates for a segment is a term of the segment and   *)
(* of the parameters it was fed.                                            *)
(***************************************************************************)
SegIdx == 0..(NSeg - 1)
AllSegments == [i \in 1..NSeg |-> i - 1]             \* range(n_segments)

NoPoint == [b |-> -1, k |-> 0]
NoGrid == [seg |-> -1, pt |-> NoPoint]               \* None
NoWint == [il \in SegIdx |-> NoGrid]                  \* [None for _ in range(n_segments)]

Ev(op, seg, keep, wave, ret) ==
    [op |-> op, seg |-> seg, keep |-> keep, wave |-> wave, ret |-> ret]
GlobalEv(op) == Ev(op, -1, "unset", NoGrid, NoGrid)
SegEv(op, il) == Ev(op, il, "unset", NoGrid, NoGrid)

\* the adaptive grid the engine generates when Transf is handed none
EngineGrid(il, pt) == [seg |-> il, pt |-> pt]

\* the intrinsic grid Transf returns: the grid it was handed, else its own
TransfGrid(il, pt, wave) == IF wave = NoGrid THEN EngineGrid(il, pt) ELSE wave

(***************************************************************************)
(* get_atmosphere and the global engine inputs of synthesize_spectrum       *)
(* (solve.py lines 454-480 and 616-628).  The pass flags passLineList,      *)
(* passAtmosphere and passNLTE keep their default, True: no caller in       *)
(* solve.py sets them.                                                      *)
(***************************************************************************)
\* interp_atmo_grid raises AtmosphereError when the parameters leave the grid
AtmosphereRaises(s, inGrid) == s.atmo_method = "grid" /\ ~inGrid

\* the line list passed whatever reuse_wavelength_grid says
LineListEventsAlways(reuse) == <<GlobalEv("SetLibraryPath"), GlobalEv("InputLineList")>>

\* lines 617-619: if passLineList and not reuse_wavelength_grid
LineListEvents(reuse) ==
    IF ~reuse THEN <<GlobalEv("SetLibraryPath"), GlobalEv("InputLineList")>> ELSE <<>>

\* lines 620-626, after get_atmosphere returned
AtmosphereEvents ==
    <<GlobalEv("InputModel"), GlobalEv("InputAbund"), GlobalEv("Ionization"),
      GlobalEv("SetVWscale"), GlobalEv("SetH2broad")>>

\* lines 627-628: update_nlte_coefficients(sme, dll)
NlteEvents == <<GlobalEv("NLTE")>>

GlobalInputEvents(reuse) == LineListEvents(reuse) \o AtmosphereEvents \o NlteEvents

(***************************************************************************)
(* The segment loop of synthesize_spectrum (lines 635-694).                 *)
(***************************************************************************)
\* the cached grid never handed over
WintSegNever(s, il, reuse) == NoGrid

\* line 645: wint_seg = sme.wint[il] if reuse_wavelength_grid else None
WintSeg(s, il, reuse) == IF reuse THEN s.wint[il] ELSE NoGrid

\* the line opacity recomputed for every segment
KeepLineOpacityNever(il, segs) == FALSE

\* line 647: keep_line_opacity = il != segments[0]
KeepLineOpacity(il, segs) == il # segs[1]

KeepFlag(b) == IF b THEN "true" ELSE "false"

\* one pass of the loop body: InputWaveRange, Opacity (called without any
\* argument), Transf, new_wavelength_grid, and the composition of the flux
SegmentEvents(s, il, segs, reuse) ==
    LET wave == WintSeg(s, il, reuse)
    IN  << SegEv("InputWaveRange", il),
           SegEv("Opacity", il),
           Ev("Transf", il, KeepFlag(KeepLineOpacity(il, segs)), wave,
              TransfGrid(il, s.x, wave)),
           SegEv("new_wavelength_grid", il),
           SegEv("compose", il) >>

RECURSIVE SegmentLoop(_, _, _, _)
SegmentLoop(s, segs, i, reuse) ==
    IF i > Len(segs) THEN <<>>
    ELSE SegmentEvents(s, segs[i], segs, reuse) \o SegmentLoop(s, segs, i + 1, reuse)

\* lines 696-710: the reconciliation, then the shift and scale of each segment
ShiftLoop(segs) == [i \in 1..Len(segs) |-> SegEv("shift_scale", segs[i])]

\* the reconciliation run before the segments are synthesized
ReconcileFirst(s, segs, reuse) ==
    <<GlobalEv("match_rv_continuum")>> \o SegmentLoop(s, segs, 1, reuse) \o ShiftLoop(segs)

\* lines 635-710
SegmentPhases(s, segs, reuse) ==
    SegmentLoop(s, segs, 1, reuse) \o <<GlobalEv("match_rv_continuum")>> \o ShiftLoop(segs)

\* the intrinsic grid Transf returned for segment il in a log (None when the
\* segment was not processed)
LoggedGrid(log, il) ==
    IF \E j \in DOMAIN log : log[j].op = "Transf" /\ log[j].seg = il
    THEN log[CHOOSE j \in DOMAIN log : log[j].op = "Transf" /\ log[j].seg = il].ret
    ELSE NoGrid

(***************************************************************************)
(* synthesize_spectrum (lines 539-735): the outcome of one call on Model    *)
(* State s for the segments argument segs: [all |-> TRUE] for "all", else    *)
(* [all |-> FALSE, idx |-> the list of indices].                            *)
(***************************************************************************)
SegAll == [all |-> TRUE, idx |-> <<>>]
SegList(l) == [all |-> FALSE, idx |-> l]

\* no segment list turned down
SegmentsOutOfRangeNever(segs) == FALSE

\* lines 589-594
SegmentsOutOfRange(segs) ==
    ~segs.all /\ \E i \in DOMAIN segs.idx : segs.idx[i] < 0 \/ segs.idx[i] >= NSeg

ResolveSegments(segs) == IF segs.all THEN AllSegments ELSE segs.idx

\* lines 582-585: fix impossible input
FixImpossible(s) ==
    IF ~s.has_spec THEN [s EXCEPT !.vrad_flag = "none", !.cscale_flag = "none"] ELSE s

\* lines 586-587
EffectiveReuse(s, reuse) == reuse /\ s.has_wint

SynthesizeSpectrum(s, segs, reuse, inGrid) ==
    LET s1 == FixImpossible(s)
        ru == EffectiveReuse(s1, reuse)
        sl == ResolveSegments(segs)
    IN  IF SegmentsOutOfRange(segs)
        THEN [sme |-> s1, log |-> <<>>, raised |-> "IndexError", reuse |-> ru, segs |-> segs]
        ELSE IF AtmosphereRaises(s1, inGrid)
        THEN [sme |-> s1, log |-> LineListEvents(ru),
              raised |-> "AtmosphereError", reuse |-> ru, segs |-> segs]
        ELSE LET log == GlobalInputEvents(ru) \o SegmentPhases(s1, sl, ru)
                        \o <<GlobalEv("GetNLTEflags")>>
             IN  [sme |-> [s1 EXCEPT !.has_wint = TRUE,
                                     !.wint = [il \in SegIdx |-> LoggedGrid(log, il)],
                                     !.has_wave = TRUE],
                  log |-> log, raised |-> "none", reuse |-> ru, segs |-> segs]

(***************************************************************************)
(* residuals (lines 35-149).  A residual vector is the term of the point it *)
(* was evaluated at; Inf is the sentinel np.inf.                            *)
(***************************************************************************)
Inf == [pt |-> NoPoint, inf |-> TRUE]
ResidAt(pt) == [pt |-> pt, inf |-> FALSE]

\* the cache written by Jacobian evaluations too
CacheResidAlways(fa, isJacobian, resid) ==
    [fa EXCEPT !.has_resid = TRUE, !.resid = resid, !.iteration = @ + 1]

\* lines 134-137: the cache kept for the Jacobian
CacheResid(fa, isJacobian, resid) ==
    IF ~isJacobian
    THEN [fa EXCEPT !.has_resid = TRUE, !.resid = resid, !.iteration = @ + 1]
    ELSE fa

\* snapshots written by Jacobian evaluations too
SaveFlagAlways(isJacobian) == TRUE

\* line 88: save = not isJacobian
SaveFlag(isJacobian) == ~isJacobian

\* fname.endswith(suffix)
EndsWith(str, suffix) ==
    Len(str) >= Len(suffix) /\ SubSeq(str, Len(str) - Len(suffix) + 1, Len(str)) = suffix

\* lines 114-116: the name of the intermediate snapshot
TmpName(fname) ==
    (IF EndsWith(fname, ".npz") THEN SubSeq(fname, 1, Len(fname) - 4) ELSE fname)
        \o "_tmp.npz"

\* lines 113-114: fname.endswith needs a string, None has no such method
SaveRaises(isJacobian, fname) == SaveFlag(isJacobian) /\ fname = "None"

\* the error let through
HandleAtmosphereErrorReraise(syn) == "AtmosphereError"

\* lines 99-103: except AtmosphereError: return np.inf
HandleAtmosphereError(syn) == "sentinel"

Residuals(s, fa, pt, isJacobian, fname, segs, inGrid) ==
    LET fa1 == IF ~fa.has_iteration
               THEN [fa EXCEPT !.has_iteration = TRUE, !.iteration = 0] ELSE fa
        s1 == [s EXCEPT !.x = pt]                              \* lines 92-93
        syn == SynthesizeSpectrum(s1, segs, isJacobian, inGrid) \* lines 96-98
    IN  IF syn.raised = "AtmosphereError"
        THEN [sme |-> syn.sme, fattr |-> fa1, syn |-> syn, saved |-> 0, where |-> "",
              ended |-> HandleAtmosphereError(syn), ret |-> Inf]
        ELSE IF syn.raised # "none"
        THEN [sme |-> syn.sme, fattr |-> fa1, syn |-> syn, saved |-> 0, where |-> "",
              ended |-> syn.raised, ret |-> Inf]
        ELSE IF SaveRaises(isJacobian, fname)
        THEN [sme |-> syn.sme, fattr |-> fa1, syn |-> syn, saved |-> 0, where |-> "",
              ended |-> "AttributeError", ret |-> Inf]
        ELSE [sme |-> syn.sme, fattr |-> CacheResid(fa1, isJacobian, ResidAt(pt)),
              syn |-> syn, saved |-> IF SaveFlag(isJacobian) THEN 1 ELSE 0,
              where |-> IF SaveFlag(isJacobian) THEN TmpName(fname) ELSE "",  \* line 117
              ended |-> "vector", ret |-> ResidAt(pt)]

(***************************************************************************)
(* get_bounds (lines 188-255).                                              *)
(***************************************************************************)
\* line 218
NeedsAtmosphereGrid(names) ==
    Contains(names, S_teff) \/ Contains(names, S_logg) \/ Contains(names, S_monh)

\* lines 224-246: IDL save files and .krz files are read, anything else raises
RecognisedExt(ext) == ext \in {".sav", ".krz"}

\* line 250: one key "<El> abund" per element; Fe stands for the elements
AbundKeys == {S_Fe_abund}

BoundKeys(names) ==
    (IF NeedsAtmosphereGrid(names) THEN {S_teff, S_logg, S_monh} ELSE {})
    \cup {S_vmic, S_vmac, S_vsini} \cup AbundKeys

GetBounds(names, ext) ==
    IF NeedsAtmosphereGrid(names) /\ ~RecognisedExt(ext) THEN "IOError"
    ELSE IF \E i \in DOMAIN names : names[i] \notin BoundKeys(names) THEN "KeyError"  \* line 253
    ELSE "none"

(***************************************************************************)
(* solve, up to the call of least_squares (lines 318-365).                  *)
(***************************************************************************)
\* lines 321-323
DefaultUncs(s) == IF ~s.has_uncs THEN [s EXCEPT !.has_uncs = TRUE] ELSE s

\* lines 337-343: param_names is the ndarray np.unique returned, which has no
\* method remove: the call raises AttributeError before the flag is set
RemoveSpecial(s, names, special) ==
    [sme |-> s, names |-> names, raised |-> "AttributeError"]

SpecialNames(s, names) ==
    IF Contains(names, S_vrad) THEN RemoveSpecial(s, names, S_vrad)
    ELSE IF Contains(names, S_cont) THEN RemoveSpecial(s, names, S_cont)
    ELSE [sme |-> s, names |-> names, raised |-> "none"]

\* the default uncertainties filled in before the assertions are made
SolvePreambleUncsFirst(s, rawnames) ==
    LET s1 == DefaultUncs(s)
        sp == SpecialNames(s1, NormalizeNames(rawnames))
    IN  IF ~s.has_wave \/ ~s.has_spec
        THEN [sme |-> s1, names |-> <<>>, raised |-> "AssertionError"]
        ELSE IF sp.raised # "none" THEN sp
        ELSE [sme |-> sp.sme, names |-> sp.names,
              raised |-> GetBounds(sp.names, sp.sme.atmo_ext)]

SolvePreamble(s, rawnames) ==
    IF ~s.has_wave \/ ~s.has_spec                                  \* lines 318-319
    THEN [sme |-> s, names |-> <<>>, raised |-> "AssertionError"]
    ELSE LET s1 == DefaultUncs(s)
             sp == SpecialNames(s1, NormalizeNames(rawnames))
         IN  IF sp.raised # "none" THEN sp
             ELSE [sme |-> sp.sme, names |-> sp.names,
                   raised |-> GetBounds(sp.names, sp.sme.atmo_ext)]  \* line 348

(***************************************************************************)
(* The inputs of the model.                                                 *)
(***************************************************************************)
\* the parameter-name lists handed to solve
SolveNameLists ==
    { <<S_teff>>, <<S_teff, <<"G","R","A","V">> >>, <<S_vmic>>,
      <<S_teff, S_vrad>>, <<S_cont, S_vmic>> }

\* filename: the default "sme.npy", a name ending in ".npz", or None
FileNames == {"sme.npy", "out.npz", "None"}

Distinct(l) == \A i, j \in DOMAIN l : i # j => l[i] # l[j]

\* the segments handed to solve: "all", one segment, or all in reverse order
SolveSegments ==
    {SegAll} \cup { SegList(<<il>>) : il \in SegIdx }
             \cup { SegList([i \in 1..NSeg |-> NSeg - i]) }

Point(b, k) == [b |-> b, k |-> k]

(***************************************************************************)
(* State.                                                                   *)
(***************************************************************************)
NoFit ==
    [names |-> <<>>, fname |-> "None", segs |-> SegAll, nfev |-> 0, njev |-> 0,
     jac_left |-> 0, base |-> NoPoint, f0 |-> Inf, fgood |-> Inf, ngood |-> 0]

NoCall ==
    [isJacobian |-> FALSE, segs |-> <<>>, log |-> <<>>, raised |-> "none",
     ended |-> "none", prev |-> "none", ret |-> Inf, ref |-> NoWint, nops |-> 0,
     saves |-> 0, where |-> ""]

NoOutcome(s) == [by |-> "none", kind |-> "none", sme0 |-> s, ops0 |-> 0, calls |-> 0,
                 solves |-> 0, rawnames |-> <<>>]

InitSme ==
    [has_wave : BOOLEAN, has_spec : BOOLEAN, has_uncs : BOOLEAN,
     atmo_method : {"grid", "embedded"}, atmo_ext : {".sav", ".krz", ".dat"},
     vrad_flag : {"whole"}, cscale_flag : {"none"},
     x : {Point(0, 0)}, has_wint : {FALSE}, wint : {NoWint}]

NoFattr == [has_iteration |-> FALSE, iteration |-> 0, has_resid |-> FALSE, resid |-> Inf]

NoNames == [raw |-> <<>>, out |-> <<>>, done |-> FALSE]
NoPf == [done |-> FALSE]
NoResid == [synth |-> <<>>, spec |-> <<>>, uncs |-> <<>>, resid |-> <<>>, done |-> FALSE]

Init ==
    /\ pc = "idle"
    /\ sme \in InitSme
    /\ fattr = NoFattr
    /\ fit = NoFit
    /\ call = NoCall
    /\ outcome = NoOutcome(sme)
    /\ nn = NoNames
    /\ rr = NoResid
    /\ pf = NoPf

\* the record of an Orchestrator call made by residuals or by the caller
CallRecord(syn, isJacobian, ended, ret, saved, where) ==
    [isJacobian |-> isJacobian,
     segs |-> IF syn.raised = "IndexError" THEN <<>> ELSE ResolveSegments(syn.segs),
     log |-> syn.log, raised |-> syn.raised, ended |-> ended, prev |-> call.ended,
     ret |-> ret,
     ref |-> IF ~isJacobian /\ syn.raised = "none"
             THEN [il \in SegIdx |-> LoggedGrid(syn.log, il)] ELSE call.ref,
     nops |-> call.nops + Len(syn.log),
     saves |-> call.saves + saved,
     where |-> IF saved > 0 THEN where ELSE call.where]

\* how a top-level call ended
Ended(by, kind, rawnames) ==
    [by |-> by, kind |-> kind, sme0 |-> outcome.sme0, ops0 |-> outcome.ops0,
     calls |-> outcome.calls, solves |-> outcome.solves, rawnames |-> rawnames]

Entered(by, rawnames) ==
    [by |-> by, kind |-> "running", sme0 |-> sme, ops0 |-> call.nops,
     calls |-> outcome.calls + 1,
     solves |-> outcome.solves + (IF by = "solve" THEN 1 ELSE 0),
     rawnames |-> rawnames]

(***************************************************************************)
(* solve is called (lines 290-380): either it raises before the fit, or     *)
(* least_squares starts.                                                    *)
(***************************************************************************)
Solve(rawnames, fname, segs) ==
    /\ pc = "idle"
    /\ outcome.calls = 0
    /\ LET pre == SolvePreamble(sme, rawnames)
           ent == Entered("solve", rawnames)
       IN  /\ sme' = pre.sme
           /\ IF pre.raised # "none"
              THEN /\ pc' = "idle"
                   /\ outcome' = [ent EXCEPT !.kind = pre.raised]
                   /\ fit' = fit
              ELSE /\ pc' = "ls_x0"
                   /\ outcome' = ent
                   /\ fit' = [NoFit EXCEPT !.names = pre.names, !.fname = fname,
                                           !.segs = segs, !.base = pre.sme.x]
    /\ UNCHANGED <<fattr, call, nn, rr, pf>>

(***************************************************************************)
(* least_squares (lines 368-380) drives residuals and jacobian:             *)
(*   - it first evaluates residuals at x0 and rejects a non-finite result;  *)
(*   - it asks for the Jacobian only at a point whose residuals it has just *)
(*     evaluated and found finite;                                          *)
(*   - it evaluates at most max_nfev times, and returns a Jacobian.         *)
(***************************************************************************)
\* one call residuals(x, ..., isJacobian=False) by the optimizer
Evaluate(inGrid) ==
    /\ pc \in {"ls_x0", "ls_have_f", "ls_inf", "ls_have_J"}
    /\ pc # "ls_x0" => fit.njev >= 1
    /\ fit.nfev < MaxEvals
    /\ LET pt == IF pc = "ls_x0" THEN fit.base ELSE Point(fit.nfev, 0)
           r == Residuals(sme, fattr, pt, FALSE, fit.fname, fit.segs, inGrid)
       IN  /\ sme' = r.sme
           /\ fattr' = r.fattr
           /\ call' = CallRecord(r.syn, FALSE, r.ended, r.ret, r.saved, r.where)
           /\ IF r.ended = "vector"
              THEN /\ pc' = "ls_have_f"
                   /\ fit' = [fit EXCEPT !.nfev = @ + 1, !.fgood = r.ret, !.ngood = @ + 1]
                   /\ outcome' = outcome
              ELSE IF r.ended = "sentinel"
              THEN /\ pc' = "ls_inf"
                   /\ fit' = [fit EXCEPT !.nfev = @ + 1]
                   /\ outcome' = outcome
              ELSE /\ pc' = "idle"
                   /\ fit' = [fit EXCEPT !.nfev = @ + 1]
                   /\ outcome' = Ended("solve", r.ended, outcome.rawnames)
    /\ UNCHANGED <<nn, rr, pf>>

\* line 164: f0=residuals.resid
JacobianF0(fa) == fa.resid

JacobianBegin ==
    /\ pc = "ls_have_f"
    /\ fattr.has_resid
    /\ pc' = "jac"
    /\ fit' = [fit EXCEPT !.f0 = JacobianF0(fattr), !.base = sme.x,
                          !.jac_left = 2 * Len(fit.names)]
    /\ UNCHANGED <<sme, fattr, call, outcome, nn, rr, pf>>

\* one perturbed evaluation residuals(x + h, ..., isJacobian=True) of the
\* 3-point scheme: two per parameter
JacobianEvaluate(inGrid) ==
    /\ pc = "jac"
    /\ fit.jac_left > 0
    /\ LET k == 2 * Len(fit.names) - fit.jac_left + 1
           r == Residuals(sme, fattr, Point(fit.base.b, k), TRUE,
                          fit.fname, fit.segs, inGrid)
       IN  /\ sme' = r.sme
           /\ fattr' = r.fattr
           /\ call' = CallRecord(r.syn, TRUE, r.ended, r.ret, r.saved, r.where)
           /\ fit' = [fit EXCEPT !.jac_left = @ - 1,
                                 !.njev = IF fit.jac_left = 1 THEN @ + 1 ELSE @]
           /\ pc' = IF fit.jac_left = 1 THEN "ls_have_J" ELSE "jac"
    /\ UNCHANGED <<outcome, nn, rr, pf>>

\* least_squares raises ValueError: the residuals at x0 are not finite
LeastSquaresRejects ==
    /\ pc = "ls_inf"
    /\ fit.njev = 0
    /\ pc' = "idle"
    /\ outcome' = Ended("solve", "ValueError", outcome.rawnames)
    /\ UNCHANGED <<sme, fattr, fit, call, nn, rr, pf>>

\* least_squares returns; solve writes the result back (lines 385-428)
SolveFinish ==
    /\ pc \in {"ls_have_f", "ls_inf", "ls_have_J"}
    /\ fit.njev >= 1
    /\ pc' = "idle"
    /\ sme' = [sme EXCEPT !.x = fit.base]
    /\ call' = IF fit.fname # "None"                              \* lines 421-422
               THEN [call EXCEPT !.saves = @ + 1, !.where = fit.fname]
               ELSE call
    /\ outcome' = Ended("solve", "returned", outcome.rawnames)
    /\ UNCHANGED <<fattr, fit, nn, rr, pf>>

(***************************************************************************)
(* synthesize_spectrum called by the user.                                  *)
(***************************************************************************)
Synthesize(segs, inGrid) ==
    /\ pc = "idle"
    /\ outcome.calls < MaxCalls
    /\ LET syn == SynthesizeSpectrum(sme, segs, FALSE, inGrid)
           ent == Entered("synthesize_spectrum", <<>>)
       IN  /\ sme' = syn.sme
           /\ call' = CallRecord(syn, FALSE, "none", Inf, 0, "")
           /\ outcome' = [ent EXCEPT !.kind = IF syn.raised = "none" THEN "returned"
                                                ELSE syn.raised]
    /\ UNCHANGED <<pc, fattr, fit, nn, rr, pf>>

\* any list of at most NSeg distinct indices, in or out of range
AnySegLists ==
    { l \in UNION { [1..n -> (-1)..NSeg] : n \in 1..NSeg } : Distinct(l) }

SynthSegments == {SegAll} \cup { SegList(l) : l \in AnySegLists }

Next ==
    \/ \E rawnames \in SolveNameLists, fname \in FileNames, segs \in SolveSegments :
          Solve(rawnames, fname, segs)
    \/ \E inGrid \in BOOLEAN : Evaluate(inGrid)
    \/ JacobianBegin
    \/ \E inGrid \in BOOLEAN : JacobianEvaluate(inGrid)
    \/ LeastSquaresRejects
    \/ SolveFinish

Spec == Init /\ [][Next]_vars

\* the caller drives synthesize_spectrum directly
NextSynth == \E segs \in SynthSegments, inGrid \in BOOLEAN : Synthesize(segs, inGrid)

SpecSynth == Init /\ [][NextSynth]_vars

(***************************************************************************)
(* The name normalisation of solve on its own: every raw list of at most    *)
(* MaxNames names is sanitised and made unique (lines 325-335).             *)
(***************************************************************************)
SomeSme == CHOOSE s \in InitSme : s.has_wave /\ s.has_spec /\ s.has_uncs

InitNames ==
    /\ pc = "idle"
    /\ sme = SomeSme
    /\ fattr = NoFattr
    /\ fit = NoFit
    /\ call = NoCall
    /\ outcome = NoOutcome(sme)
    /\ nn \in [raw : NameLists, out : {<<>>}, done : {FALSE}]
    /\ rr = NoResid
    /\ pf = NoPf

SanitizeAndUnique ==
    /\ ~nn.done
    /\ nn' = [nn EXCEPT !.out = NormalizeNames(nn.raw), !.done = TRUE]
    /\ UNCHANGED <<pc, sme, fattr, fit, call, outcome, rr, pf>>

NextNames == SanitizeAndUnique

SpecNames == InitNames /\ [][NextNames]_vars

(***************************************************************************)
(* The arithmetic of residuals (lines 122-132) on IEEE doubles.  A double   *)
(* is [k, v]: k = "fin" with the value v, or "nan", "pinf", "ninf", or      *)
(* "max" / "min" for the largest and the most negative finite double.       *)
(* The vectors are the ones solve hands over, already masked.               *)
(***************************************************************************)
Fin(v) == [k |-> "fin", v |-> v]
NaN == [k |-> "nan", v |-> 0]
PInf == [k |-> "pinf", v |-> 0]
NInf == [k |-> "ninf", v |-> 0]
DblMax == [k |-> "max", v |-> 0]
DblMin == [k |-> "min", v |-> 0]

IsFinite(a) == a.k \in {"fin", "max", "min"}
IsZero(a) == a.k = "fin" /\ a.v = 0

\* a - b
FSub(a, b) ==
    IF a.k = "nan" \/ b.k = "nan" THEN NaN
    ELSE IF a.k = "pinf" THEN (IF b.k = "pinf" THEN NaN ELSE PInf)
    ELSE IF a.k = "ninf" THEN (IF b.k = "ninf" THEN NaN ELSE NInf)
    ELSE IF b.k = "pinf" THEN NInf
    ELSE IF b.k = "ninf" THEN PInf
    ELSE Fin(a.v - b.v)

\* a + 0: uncs + uncs_linelist with uncs_linelist = 0 (lines 129-131)
FAddZero(a) == a

Negative(a) == a.k = "ninf" \/ (a.k = "fin" /\ a.v < 0)

\* a / b; a finite quotient is exact for the divisors of the model, 1 and -1
FDiv(a, b) ==
    IF a.k = "nan" \/ b.k = "nan" THEN NaN
    ELSE IF b.k \in {"pinf", "ninf"}
         THEN (IF a.k \in {"pinf", "ninf"} THEN NaN ELSE Fin(0))
    ELSE IF b.v = 0
         THEN (IF IsZero(a) THEN NaN ELSE IF Negative(a) THEN NInf ELSE PInf)
    ELSE IF a.k \in {"pinf", "ninf"}
         THEN (IF Negative(a) = (b.v < 0) THEN PInf ELSE NInf)
    ELSE Fin(a.v \div b.v)

\* np.nan_to_num with its defaults: NaN becomes 0, +infinity the largest
\* finite double, -infinity the most negative finite double
NanToNum(a) ==
    IF a.k = "nan" THEN Fin(0)
    ELSE IF a.k = "pinf" THEN DblMax
    ELSE IF a.k = "ninf" THEN DblMin
    ELSE a

\* line 131: (synth - spec) / (uncs + uncs_linelist)
RawResid(synth, spec, uncs) ==
    [i \in DOMAIN synth |-> FDiv(FSub(synth[i], spec[i]), FAddZero(uncs[i]))]

\* lines 131-132
ResidVector(synth, spec, uncs) ==
    [i \in DOMAIN synth |-> NanToNum(RawResid(synth, spec, uncs)[i])]

\* the entries of synth, spec and uncs; solve hands over uncs / spec (line
\* 363), which is infinite or NaN where the observed flux is zero
SynthVals == {Fin(0), Fin(1), Fin(2), NaN, PInf}
SpecVals == {Fin(0), Fin(1)}
UncsVals == {Fin(0), Fin(1), PInf, NaN}

InitResid ==
    /\ pc = "idle"
    /\ sme = SomeSme
    /\ fattr = NoFattr
    /\ fit = NoFit
    /\ call = NoCall
    /\ outcome = NoOutcome(sme)
    /\ nn = NoNames
    /\ pf = NoPf
    /\ \E n \in 1..MaxPts :
          rr \in [synth : [1..n -> SynthVals], spec : [1..n -> SpecVals],
                  uncs : [1..n -> UncsVals], resid : {<<>>}, done : {FALSE}]

ResidualArithmetic ==
    /\ ~rr.done
    /\ rr' = [rr EXCEPT !.resid = ResidVector(rr.synth, rr.spec, rr.uncs), !.done = TRUE]
    /\ UNCHANGED <<pc, sme, fattr, fit, call, outcome, nn, pf>>

NextResid == ResidualArithmetic

SpecResid == InitResid /\ [][NextResid]_vars

(***************************************************************************)
(* The state in which a numerical routine is run on its own.                *)
(***************************************************************************)
Quiet ==
    /\ pc = "idle"
    /\ sme = SomeSme
    /\ fattr = NoFattr
    /\ fit = NoFit
    /\ call = NoCall
    /\ outcome = NoOutcome(sme)
    /\ nn = NoNames
    /\ rr = NoResid

(***************************************************************************)
(* solve: the points of the fit and the reduced chi-square (lines 354-359   *)
(* and 408).  mask[il][i] is sme.mask_good[il][i]; the observation of       *)
(* segment il has Len(mask[il]) points.  A quotient is kept as              *)
(* [num, den].                                                              *)
(***************************************************************************)
RECURSIVE SumOver(_, _)
SumOver(f, S) ==
    IF S = {} THEN 0
    ELSE LET x == CHOOSE y \in S : TRUE IN f[x] + SumOver(f, S \ {x})

\* sme.spec.size: every point of every segment (line 408)
SpecSize(mask) == SumOver([il \in SegIdx |-> Len(mask[il])], SegIdx)

\* lines 357-358: spec = sme.spec[segments][mask], the points that are fitted
FitPoints(mask, segs) ==
    LET sl == ResolveSegments(segs)
    IN  SumOver([i \in DOMAIN sl |->
                    Cardinality({j \in DOMAIN mask[sl[i]] : mask[sl[i]][j]})], DOMAIN sl)

\* line 408: sme.fitresults.chisq = res.cost * 2 / (sme.spec.size - nparam)
ReducedChisq(cost, mask, segs, nparam) ==
    [num |-> cost * 2, den |-> SpecSize(mask) - nparam]

Masks == UNION { [1..n -> BOOLEAN] : n \in 1..MaxPts }
Costs == 1..2
NParams == 1..2

InitChisq ==
    /\ Quiet
    /\ pf \in [mask : [SegIdx -> Masks], segs : SolveSegments, nparam : NParams,
                cost : Costs, chisq : {[num |-> 0, den |-> 1]}, done : {FALSE}]

StoreChisq ==
    /\ ~pf.done
    /\ pf' = [pf EXCEPT !.chisq = ReducedChisq(pf.cost, pf.mask, pf.segs, pf.nparam),
                        !.done = TRUE]
    /\ UNCHANGED <<pc, sme, fattr, fit, call, outcome, nn, rr>>

NextChisq == StoreChisq

SpecChisq == InitChisq /\ [][NextChisq]_vars

(***************************************************************************)
(* new_wavelength_grid (lines 498-536) in integer arithmetic.               *)
(*                                                                          *)
(* A wavelength is a whole number of units of which the first point of a    *)
(* grid has W0 = 10^7 (at 5000 Angstrom a unit is 0.0005 Angstrom); a       *)
(* velocity is a whole number of hundredths of a km/s, a quotient being     *)
(* cut to a whole number.  The grids of the model span less than 10^-5 of   *)
(* their wavelength, where log10(1 + x) is x / ln(10) to within 10^-5, so   *)
(* the quotient of the two logarithms in nx is the quotient of their        *)
(* arguments, and the geometric grid is evenly spaced to within a unit.     *)
(***************************************************************************)
clight == 29979246        \* line 29, in 0.01 km/s
vstep3 == 5               \* line 516: 0.05 km/s
W0 == 10000000
MaxGrid == 4              \* points of an intrinsic grid

\* the widest grid whose products stay within 32 bits
MaxSpan == 2147483647 \div clight

Min(a, b) == IF a <= b THEN a ELSE b
Max(a, b) == IF a >= b THEN a ELSE b

\* diff = wint[1:] - wint[:-1]
Diff(wint) == [j \in 1..(Len(wint) - 1) |-> wint[j + 1] - wint[j]]

\* np.argmin(diff): the first index of the smallest element
Argmin(diff) ==
    CHOOSE j \in DOMAIN diff :
        /\ \A i \in DOMAIN diff : diff[j] <= diff[i]
        /\ \A i \in 1..(j - 1) : diff[i] > diff[j]

\* line 514: smallest step
Vstep1(wint) ==
    LET jmin == Argmin(Diff(wint))
    IN  (Diff(wint)[jmin] * clight) \div wint[jmin]

\* line 515: 10% mean dispersion, 0.1 * wspan / (len(wint) - 1) / wmid * clight
\* with wmid = 0.5 * (wend + wbeg)
Vstep2(wint) ==
    LET wbeg == wint[1]
        wend == wint[Len(wint)]
    IN  ((wend - wbeg) * clight) \div (5 * (Len(wint) - 1) * (wend + wbeg))

\* the floor taken whatever the other candidates are
SelectFloor(v1, v2, v3) == v3

\* line 517: vstep = max(vstep1, vstep2, vstep3)
SelectLargest(v1, v2, v3) == Max(v1, Max(v2, v3))

\* lines 520-522: number of wavelengths
NumberOfWavelengths(wbeg, wend, vstep) == ((wend - wbeg) * clight) \div (wbeg * vstep) + 1

\* lines 523-524: force nx to be odd
ForceOdd(nx) == IF nx % 2 = 0 THEN nx + 1 ELSE nx

\* line 534: np.geomspace(wbeg, wend, num=nx); numpy sets the first point to
\* wbeg and, when there is more than one point, the last to wend
Geomspace(wbeg, wend, nx) ==
    [k \in 1..nx |->
        IF k = 1 THEN wbeg
        ELSE IF k = nx THEN wend
        ELSE wbeg + ((k - 1) * (wend - wbeg)) \div (nx - 1)]

\* lines 535-536: the step realised by the first two points; x_seg[:2] of a
\* grid of one point has no difference, and [0] raises IndexError
NewWavelengthGrid(wint) ==
    LET wbeg == wint[1]
        wend == wint[Len(wint)]
        v1 == Vstep1(wint)
        v2 == Vstep2(wint)
        vstep == SelectLargest(v1, v2, vstep3)
        nx == ForceOdd(NumberOfWavelengths(wbeg, wend, vstep))
        x_seg == Geomspace(wbeg, wend, nx)
    IN  [candidates |-> <<v1, v2, vstep3>>, sizing |-> vstep, nx |-> nx, x_seg |-> x_seg,
         raised |-> IF nx < 2 THEN "IndexError" ELSE "none",
         vstep |-> IF nx < 2 THEN 0 ELSE ((x_seg[2] - x_seg[1]) * clight) \div x_seg[1],
         done |-> TRUE]

\* the spacings of the intrinsic grids, in units
Spacings == {1, 2, 3, 5, 10, 40}

RECURSIVE GridFrom(_, _)
GridFrom(w, diffs) ==
    IF Len(diffs) = 0 THEN <<w>> ELSE <<w>> \o GridFrom(w + Head(diffs), Tail(diffs))

RECURSIVE SeqSum(_)
SeqSum(q) == IF Len(q) = 0 THEN 0 ELSE Head(q) + SeqSum(Tail(q))

\* intrinsic grids: at least two strictly increasing wavelengths
IntrinsicGrids ==
    { GridFrom(W0, d) :
        d \in { q \in UNION { [1..n -> Spacings] : n \in 1..(MaxGrid - 1) } :
                    SeqSum(q) <= MaxSpan } }

InitGrid ==
    /\ Quiet
    /\ pf \in [wint : IntrinsicGrids, done : {FALSE}]

BuildGrid ==
    /\ ~pf.done
    /\ pf' = [wint |-> pf.wint] @@ NewWavelengthGrid(pf.wint)
    /\ UNCHANGED <<pc, sme, fattr, fit, call, outcome, nn, rr>>

NextGrid == BuildGrid

SpecGrid == InitGrid /\ [][NextGrid]_vars

(***************************************************************************)
(* get_wavelengthrange (lines 483-495).  Velocities are whole numbers of    *)
(* hundredths of a km/s, vsini an even number of them; a wavelength limit   *)
(* is the exact quotient [num, den].                                        *)
(***************************************************************************)
MaxVel == 4               \* velocities of the model reach MaxVel km/s

\* the lower limit not applied
ClipBelowNot(x, lo) == x

\* np.clip(x, lo, None)
ClipBelow(x, lo) == IF x < lo THEN lo ELSE x

\* np.clip(x, None, hi)
ClipAbove(x, hi) == IF x > hi THEN hi ELSE x

GetWavelengthrange(wran, vrad, vsini) ==
    LET vrad_pad == 3000 + ClipBelow(vsini, 0) \div 2        \* line 489
        vbeg == vrad_pad + ClipBelow(vrad, 0)                \* line 490
        vend == vrad_pad - ClipAbove(vrad, 0)                \* line 491
    IN  [vbeg |-> vbeg, vend |-> vend,
         wbeg |-> [num |-> wran[1] * (clight - vbeg), den |-> clight],   \* line 493
         wend |-> [num |-> wran[2] * (clight + vend), den |-> clight]]   \* line 494

Vrads == {100 * k : k \in (-MaxVel)..MaxVel}
Vsinis == {200 * k : k \in (-1)..MaxVel}
WranOfModel == <<50, 60>>

InitRange ==
    /\ Quiet
    /\ pf \in [vrad : Vrads, vsini : Vsinis, vrad2 : Vrads, vsini2 : Vsinis, done : {FALSE}]

\* the range planned for two settings of the velocities
PlanRanges ==
    /\ ~pf.done
    /\ pf' = [pf EXCEPT !.done = TRUE] @@
             [r1 |-> GetWavelengthrange(WranOfModel, pf.vrad, pf.vsini),
              r2 |-> GetWavelengthrange(WranOfModel, pf.vrad2, pf.vsini2)]
    /\ UNCHANGED <<pc, sme, fattr, fit, call, outcome, nn, rr>>

NextRange == PlanRanges

SpecRange == InitRange /\ [][NextRange]_vars

(***************************************************************************)
(* synthesize_spectrum: the shift and scale of one segment (lines 702-710). *)
(* vrad and cscale are what match_rv_continuum returned for the segment,    *)
(* each possibly None; wave is the segment's output wavelength array.  The  *)
(* flux written is safe_interpolation(wmod * rv_factor, smod, wave) times   *)
(* the continuum multiplier; the square of rv_factor is kept as the         *)
(* quotient [num, den].                                                     *)
(***************************************************************************)
NoVrad == [none |-> TRUE, v |-> 0]
NoCscale == [none |-> TRUE, v |-> <<>>]
Given(v) == [none |-> FALSE, v |-> v]

\* line 704: rv_factor = sqrt((1 + vrad / clight) / (1 - vrad / clight))
RvFactorSquared(vrad) == [num |-> clight + vrad, den |-> clight - vrad]

\* the coefficients read lowest power first
RECURSIVE PolyvalAscending(_, _)
PolyvalAscending(p, x) ==
    IF Len(p) = 0 THEN 0 ELSE Head(p) + x * PolyvalAscending(Tail(p), x)

\* np.polyval(p, x): p[0] * x**(N-1) + ... + p[N-1], by Horner's scheme
RECURSIVE Polyval(_, _)
Polyval(p, x) ==
    IF Len(p) = 0 THEN 0
    ELSE Polyval(SubSeq(p, 1, Len(p) - 1), x) * x + p[Len(p)]

ShiftScale(vrad, cscale, wave) ==
    LET shifted == ~vrad.none                                          \* line 703
        scaled == ~cscale.none /\ \E i \in DOMAIN cscale.v : cscale.v[i] # 0   \* line 708
    IN  [shifted |-> shifted,
         factor2 |-> IF shifted THEN RvFactorSquared(vrad.v) ELSE [num |-> 1, den |-> 1],
         scaled |-> scaled,
         mult |-> [i \in DOMAIN wave |->
                      IF scaled THEN Polyval(cscale.v, wave[i] - wave[1]) ELSE 1]]

VradsReturned == {NoVrad} \cup {Given(v) : v \in {-1000, 0, 1000}}
CscalesReturned ==
    {NoCscale} \cup {Given(c) : c \in UNION { [1..n -> 0..2] : n \in 1..3 }}
OutputWaves == { <<50>>, <<50, 51, 53>> }

InitShift ==
    /\ Quiet
    /\ pf \in [vrad : VradsReturned, cscale : CscalesReturned, wave : OutputWaves,
                done : {FALSE}]

ShiftAndScale ==
    /\ ~pf.done
    /\ pf' = [pf EXCEPT !.done = TRUE] @@ ShiftScale(pf.vrad, pf.cscale, pf.wave)
    /\ UNCHANGED <<pc, sme, fattr, fit, call, outcome, nn, rr>>

NextShift == ShiftAndScale

SpecShift == InitShift /\ [][NextShift]_vars

(***************************************************************************)
(* synthesize_spectrum called again on the Model State it returned.  Of the *)
(* Model State the calls read sme.vrad and sme.vsini (line 640-641) and     *)
(* write sme.synth (line 728) and sme.vrad (line 733).  The flux of a       *)
(* segment is a term of the wavelength range submitted to the engine and of *)
(* the velocity it was shifted by; obs is the Doppler shift carried by the  *)
(* observation.                                                             *)
(***************************************************************************)
\* match_rv_continuum, the velocities: those of the observation when the
\* velocity is fitted, 0 when it is not
MatchRvContinuum(vrad_flag, obs, segs) ==
    [il \in SegIdx |->
        IF vrad_flag # "none" /\ \E i \in DOMAIN segs : segs[i] = il THEN obs ELSE 0]

NoFlux == [wbeg |-> [num |-> 0, den |-> 1], wend |-> [num |-> 0, den |-> 1], vrad |-> 0]

\* lines 640-643 and 702-706: the range handed to InputWaveRange, and the
\* velocity of the shift
SegmentFlux(s, il, vrad) ==
    LET r == GetWavelengthrange(WranOfModel, s.vrad[il], s.vsini)
    IN  [wbeg |-> r.wbeg, wend |-> r.wend, vrad |-> vrad[il]]

RequestedLists ==
    { l \in AnySegLists : \A i \in DOMAIN l : l[i] \in SegIdx }

InitAgain ==
    /\ Quiet
    /\ \E v \in Vrads :
          pf \in [vrad : {[il \in SegIdx |-> v]}, vsini : {0, 200},
                  vrad_flag : {"none", "each", "whole"}, obs : Vrads,
                  segs : RequestedLists, synth : {[il \in SegIdx |-> NoFlux]},
                  hist : {<<>>}, done : {FALSE}]

SynthesizeAgain ==
    /\ Len(pf.hist) < MaxCalls
    /\ LET vrad == MatchRvContinuum(pf.vrad_flag, pf.obs, pf.segs)          \* line 698
           synth == [il \in SegIdx |->
                       IF \E i \in DOMAIN pf.segs : pf.segs[i] = il
                       THEN SegmentFlux(pf, il, vrad) ELSE pf.synth[il]]     \* line 728
       IN  pf' = [pf EXCEPT !.synth = synth, !.hist = Append(@, synth),
                            !.vrad = vrad]                                   \* line 733
    /\ UNCHANGED <<pc, sme, fattr, fit, call, outcome, nn, rr>>

NextAgain == SynthesizeAgain

SpecAgain == InitAgain /\ [][NextAgain]_vars

(***************************************************************************)
(* get_atmosphere (lines 431-480) over a sequence of calls.  The function   *)
(* attributes msdi_save and prev_msdi live as long as the process; of       *)
(* prev_msdi the code reads the source only.  The caller sets sme.atmo      *)
(* before each call; interp_atmo_grid raises AtmosphereError when the       *)
(* parameters lie outside the grid.                                         *)
(***************************************************************************)
NoMsdi == [msdi_save |-> FALSE, source |-> ""]     \* no attribute set

\* the grid loaded on the first call only
ReloadFirstOnly(ms, source) == ~ms.msdi_save

\* line 466: reload = msdi_save is None or atmo.source != prev_msdi[1]
Reload(ms, source) == ~ms.msdi_save \/ source # ms.source

GetAtmosphere(ms, method, source, inGrid) ==
    IF method = "grid"
    THEN LET reload == Reload(ms, source)
         IN  IF ~inGrid                                               \* line 467 raises
             THEN [ms |-> ms, reload |-> reload, raised |-> "AtmosphereError"]
             ELSE [ms |-> [msdi_save |-> TRUE, source |-> source],    \* lines 468-470
                   reload |-> reload, raised |-> "none"]
    ELSE IF method \in {"routine", "embedded"}
    THEN [ms |-> ms, reload |-> FALSE, raised |-> "none"]
    ELSE [ms |-> ms, reload |-> FALSE, raised |-> "AttributeError"]   \* line 477

AtmoMethods == {"grid", "routine", "embedded", "file"}
AtmoSources == {"atlas12.sav", "marcs2012.sav"}

InitAtmo ==
    /\ Quiet
    /\ pf = [ms |-> NoMsdi, hist |-> <<>>, done |-> FALSE]

CallGetAtmosphere(method, source, inGrid) ==
    /\ Len(pf.hist) < MaxCalls
    /\ LET r == GetAtmosphere(pf.ms, method, source, inGrid)
       IN  pf' = [pf EXCEPT !.ms = r.ms,
                            !.hist = Append(@, [method |-> method, source |-> source,
                                                reload |-> r.reload, raised |-> r.raised])]
    /\ UNCHANGED <<pc, sme, fattr, fit, call, outcome, nn, rr>>

NextAtmo ==
    \E method \in AtmoMethods, source \in AtmoSources, inGrid \in BOOLEAN :
        CallGetAtmosphere(method, source, inGrid)

SpecAtmo == InitAtmo /\ [][NextAtmo]_vars

(***************************************************************************)
(* determine_rv_and_cont(sme, segment, x_syn, y_syn, use_whole_spectrum):   *)
(* the RV/continuum determination for one segment, as its contract and      *)
(* test_continuum_and_rv.py state it.  mask flags the good points of the    *)
(* segment; obs is the velocity and cont the continuum level carried by the *)
(* observation, which a fit recovers.                                       *)
(***************************************************************************)
\* the fallback never taken
NothingToFitNever(mask) == FALSE

\* no good point in the segment (sme.mask = 0)
NothingToFit(mask) == \A i \in DOMAIN mask : ~mask[i]

DetermineRvAndCont(vrad_flag, cscale_flag, mask, whole, obs, cont) ==
    IF NothingToFit(mask) \/ (vrad_flag = "none" /\ cscale_flag = "none")
    THEN [rvel |-> 0, cscale |-> <<1>>]
    ELSE [rvel |-> IF vrad_flag = "each" \/ (vrad_flag = "whole" /\ whole)
                   THEN obs ELSE 0,
          cscale |-> CASE cscale_flag = "constant" -> <<cont>>
                       [] cscale_flag = "linear" -> <<0, cont>>
                       [] cscale_flag = "quadratic" -> <<0, 0, cont>>
                       [] OTHER -> <<1>>]

InitRv ==
    /\ Quiet
    /\ pf \in [vrad_flag : {"none", "each", "whole"},
                cscale_flag : {"none", "constant", "linear", "quadratic"},
                mask : [1..MaxPts -> BOOLEAN], whole : BOOLEAN,
                obs : Vrads, cont : 1..2, done : {FALSE}]

Determine ==
    /\ ~pf.done
    /\ pf' = [pf EXCEPT !.done = TRUE] @@
             DetermineRvAndCont(pf.vrad_flag, pf.cscale_flag, pf.mask, pf.whole,
                                pf.obs, pf.cont)
    /\ UNCHANGED <<pc, sme, fattr, fit, call, outcome, nn, rr>>

NextRv == Determine

SpecRv == InitRv /\ [][NextRv]_vars

(***************************************************************************)
(* synthesize_spectrum: the output arrays (lines 606-614, 687-694 and       *)
(* 712-726).  The Model State keeps the wavelengths of all segments in one  *)
(* array (sme.wave = np.zeros(npoints), line 721), the flux likewise, and   *)
(* the offsets of the segments in sme.wind; segment s of an array is its    *)
(* slice from wind[s] to wind[s + 1].  pf.wob and pf.smod are these arrays, *)
(* pf.made[s] the array created at the first synthesis of segment s.  A     *)
(* sample of the flux is written as the wavelength it was resampled at.     *)
(***************************************************************************)
Wran(il) == <<50 + 20 * il, 60 + 20 * il>>                  \* sme.wran[il]

\* the uniform grid of a segment, reaching into the padding on both sides
UniformGrid(il, step) ==
    LET n == (14 \div step) + 1
    IN  [j \in 1..n |-> Wran(il)[1] - 2 + step * (j - 1)]

\* lines 690-693: trim the padding, force the end points
TrimmedWave(wgrid, wran) ==
    <<wran[1]>> \o SelectSeq(wgrid, LAMBDA w : w > wran[1] /\ w < wran[2]) \o <<wran[2]>>

\* values[wind[s] : wind[s + 1]]
SegmentOf(values, wind, s) ==
    LET a == Min(wind[s], Len(values))
        b == Min(wind[s + 1], Len(values))
    IN  IF b > a THEN SubSeq(values, a + 1, b) ELSE <<>>

\* values[wind[s] : wind[s + 1]] = v; the lengths have to agree
AssignSegment(values, wind, s, v) ==
    LET a == Min(wind[s], Len(values))
        b == Max(a, Min(wind[s + 1], Len(values)))
    IN  IF Len(v) # b - a
        THEN [values |-> values, raised |-> "ValueError"]
        ELSE [values |-> SubSeq(values, 1, a) \o v \o SubSeq(values, b + 1, Len(values)),
              raised |-> "none"]

\* lines 725-726 for the segments segs[i..]
RECURSIVE StoreSegments(_, _, _, _, _, _)
StoreSegments(wob, smod, wind, wave, segs, i) ==
    IF i > Len(segs) THEN [wob |-> wob, smod |-> smod, raised |-> "none"]
    ELSE LET w == AssignSegment(wob, wind, segs[i], wave[segs[i]])
             f == AssignSegment(smod, wind, segs[i], wave[segs[i]])
         IN  IF w.raised # "none" THEN [wob |-> wob, smod |-> smod, raised |-> w.raised]
             ELSE IF f.raised # "none"
             THEN [wob |-> w.values, smod |-> smod, raised |-> f.raised]
             ELSE StoreSegments(w.values, f.values, wind, wave, segs, i + 1)

OutputArrays(st, segs, step) ==
    LET Zeros(n) == [i \in 1..n |-> 0]
        req(il) == \E i \in DOMAIN segs : segs[i] = il
        new(il) == req(il) /\ (~st.has_wave \/ Len(SegmentOf(st.wob, st.wind, il)) = 0)  \* line 688
        wave == [il \in SegIdx |->
                    IF new(il) THEN TrimmedWave(UniformGrid(il, step), Wran(il))
                    ELSE IF st.has_wave THEN SegmentOf(st.wob, st.wind, il)        \* line 613
                    ELSE <<>>]
        len == [k \in 0..NSeg |->
                    IF k = 0 THEN 0
                    ELSE IF new(k - 1) THEN Len(wave[k - 1])                       \* line 694
                    ELSE IF st.has_wave THEN st.wind[k] - st.wind[k - 1]           \* line 614
                    ELSE 0]
        wind == [k \in 0..NSeg |-> SeqSum([j \in 1..k |-> len[j]])]               \* line 715: np.cumsum
        npoints == SeqSum([i \in DOMAIN segs |-> Len(wave[segs[i]])])              \* line 720
        wob == IF st.has_wave THEN st.wob ELSE Zeros(npoints)                      \* line 721
        smod == IF st.has_synth THEN st.smod ELSE Zeros(Len(wob))                  \* line 724
        r == StoreSegments(wob, smod, wind, wave, segs, 1)
    IN  [has_wave |-> TRUE, has_synth |-> TRUE, wob |-> r.wob, smod |-> r.smod,
         wind |-> wind, raised |-> r.raised, segs |-> segs,
         made |-> [il \in SegIdx |-> IF new(il) THEN wave[il] ELSE st.made[il]],
         calls |-> st.calls + 1, done |-> FALSE]

InitWave ==
    /\ Quiet
    /\ pf = [has_wave |-> FALSE, has_synth |-> FALSE, wob |-> <<>>, smod |-> <<>>,
             wind |-> [k \in 0..NSeg |-> 0], raised |-> "none", segs |-> <<>>,
             made |-> [il \in SegIdx |-> <<>>], calls |-> 0, done |-> FALSE]

SynthesizeWave(segs, step) ==
    /\ pf.calls < MaxCalls
    /\ pf.raised = "none"
    /\ pf' = OutputArrays(pf, segs, step)
    /\ UNCHANGED <<pc, sme, fattr, fit, call, outcome, nn, rr>>

NextWave == \E segs \in RequestedLists, step \in {1, 2, 3, 5} : SynthesizeWave(segs, step)

SpecWave == InitWave /\ [][NextWave]_vars

(***************************************************************************)
(* Reading the log of an Orchestrator call.                                 *)
(***************************************************************************)
Completed == call.raised = "none" /\ Len(call.log) > 0

Places(op) == {j \in DOMAIN call.log : call.log[j].op = op}
PlacesOf(op, il) == {j \in Places(op) : call.log[j].seg = il}

Requested == {call.segs[i] : i \in DOMAIN call.segs}

\* the steps a segment went through, in the order they happened
StepsOf(il) ==
    LET evs == SelectSeq(call.log, LAMBDA e : e.seg = il)
    IN  [j \in DOMAIN evs |-> evs[j].op]

GlobalInputs ==
    {"InputLineList", "InputModel", "InputAbund", "Ionization", "SetVWscale",
     "SetH2broad", "NLTE"}

BeforeFirstRange(j) == \A r \in Places("InputWaveRange") : j < r

(***************************************************************************)
(* C1                                                                       *)
(***************************************************************************)
\* C1: every perturbed residual evaluation of a Jacobian (isJacobian=True)
\* hands Transf, for each requested segment, the intrinsic grid the most
\* recent non-Jacobian synthesis cached, Transf runs on that grid, and the
\* cache still holds it afterwards, so all perturbed evaluations of the
\* Jacobian use one grid; a non-Jacobian evaluation hands Transf no grid.
C1_JacobianReusesCachedGrid ==
    /\ (Completed /\ call.isJacobian) =>
          /\ \A il \in Requested :
                /\ Cardinality(PlacesOf("Transf", il)) = 1
                /\ \A j \in PlacesOf("Transf", il) :
                      /\ call.log[j].wave # NoGrid
                      /\ call.log[j].wave = call.ref[il]
                      /\ call.log[j].ret = call.ref[il]
                /\ sme.wint[il] = call.ref[il]
    /\ (Completed /\ ~call.isJacobian) =>
          \A j \in Places("Transf") : call.log[j].wave = NoGrid

\* the second or a later perturbed evaluation of a Jacobian over all segments
C1_Witness ==
    /\ pc = "jac" /\ call.isJacobian /\ Completed
    /\ fit.jac_left < 2 * Len(fit.names) - 1
    /\ Len(call.segs) = NSeg
    /\ fit.nfev >= 2

(***************************************************************************)
(* C2                                                                       *)
(***************************************************************************)
\* C2: at every call of jacobian the reference vector f0 is the residual
\* vector returned by the most recent non-Jacobian residuals call that did
\* not end in the sentinel; Jacobian evaluations and evaluations ending in
\* the sentinel change neither residuals.resid nor residuals.iteration.
C2_JacobianReferenceIsLastResid ==
    /\ fattr.iteration = fit.ngood
    /\ fattr.has_resid <=> fit.ngood > 0
    /\ fattr.has_resid => fattr.resid = fit.fgood
    /\ pc = "jac" => (fit.f0 = fit.fgood /\ ~fit.f0.inf)

\* a Jacobian after three evaluations of which one ended in the sentinel
C2_Witness ==
    /\ pc = "jac" /\ call.isJacobian
    /\ fit.nfev = 3 /\ fit.ngood = 2
    /\ call.ended = "sentinel"

C4_EveryGlobalInputOnce ==
    Completed =>
        \A op \in GlobalInputs :
            /\ Cardinality(Places(op)) = 1
            /\ \A j \in Places(op) : BeforeFirstRange(j)

\* C4 as amended: every Orchestrator call that reaches its segments issues
\* atmosphere model, abundances, ionization, van der Waals scale, H2
\* broadening and NLTE coefficients exactly once, before the first
\* InputWaveRange; the line list is issued exactly once, before the first
\* InputWaveRange, by a non-Jacobian evaluation, and not at all by a Jacobian
\* evaluation, which reuses the cached grid.
C4_GlobalInputsOnceLineListUnlessReuse ==
    Completed =>
        /\ \A op \in GlobalInputs \ {"InputLineList"} :
              /\ Cardinality(Places(op)) = 1
              /\ \A j \in Places(op) : BeforeFirstRange(j)
        /\ Cardinality(Places("InputLineList")) = (IF call.isJacobian THEN 0 ELSE 1)
        /\ \A j \in Places("InputLineList") : BeforeFirstRange(j)

\* a Jacobian evaluation and, before it, a non-Jacobian one over two segments
C4_Witness ==
    /\ Completed /\ call.isJacobian /\ Len(call.segs) >= 2
    /\ Cardinality(Places("InputWaveRange")) >= 2

(***************************************************************************)
(* C5                                                                       *)
(***************************************************************************)
FirstProcessed == call.segs[1]

\* C5 as claimed: in each Orchestrator call both Opacity and Transf are
\* invoked without keeping the line opacity for the first processed segment
\* and with keep_line_opacity = true for every segment processed after it.
C5_OpacityAndTransfKeep ==
    Completed =>
        \A j \in Places("Opacity") \cup Places("Transf") :
            IF call.log[j].seg = FirstProcessed
            THEN call.log[j].keep # "true"
            ELSE call.log[j].keep = "true"

\* C5 as amended: in each Orchestrator call Transf is invoked with
\* keep_line_opacity = false for the first processed segment and with
\* keep_line_opacity = true for every segment processed after it; Opacity is
\* invoked without any keep_line_opacity argument for every segment.
C5_TransfKeepOpacityNoFlag ==
    Completed =>
        /\ \A j \in Places("Transf") :
              call.log[j].keep = (IF call.log[j].seg = FirstProcessed
                                  THEN "false" ELSE "true")
        /\ \A j \in Places("Opacity") : call.log[j].keep = "unset"

\* a call over all segments that starts with another segment than 0
C5_Witness ==
    /\ Completed /\ Len(call.segs) = NSeg /\ FirstProcessed # 0
    /\ \E j \in Places("Transf") : call.log[j].keep = "true"

(***************************************************************************)
(* C6                                                                       *)
(***************************************************************************)
SegmentSteps ==
    <<"InputWaveRange", "Opacity", "Transf", "new_wavelength_grid", "compose",
      "shift_scale">>

\* C6: every requested segment of an Orchestrator call goes through
\* RangePlanned, Opacity Computed, Transferred, Gridded, Composed and
\* Shifted/Scaled in this order, none skipped or repeated; the RV/continuum
\* reconciliation is invoked exactly once, after every requested segment is
\* Composed and before any segment is Shifted/Scaled.
C6_SegmentStepOrder ==
    Completed =>
        /\ \A il \in Requested : StepsOf(il) = SegmentSteps
        /\ \A il \in SegIdx \ Requested : StepsOf(il) = <<>>
        /\ Cardinality(Places("match_rv_continuum")) = 1
        /\ \A m \in Places("match_rv_continuum") :
              /\ \A j \in Places("compose") : j < m
              /\ \A j \in Places("shift_scale") : m < j

\* a completed call over all segments
C6_Witness ==
    /\ Completed /\ Len(call.segs) = NSeg
    /\ Cardinality(Places("shift_scale")) = NSeg

(***************************************************************************)
(* C7                                                                       *)
(***************************************************************************)
\* C7: every entry of the residual vector a completed evaluation returns is
\* finite, and every entry whose raw value (synthetic - observed) /
\* uncertainty is NaN, +infinity or -infinity is returned as exactly zero.
C7_NonFiniteBecomesZero ==
    rr.done =>
        \A i \in DOMAIN rr.resid :
            /\ IsFinite(rr.resid[i])
            /\ ~IsFinite(RawResid(rr.synth, rr.spec, rr.uncs)[i]) => IsZero(rr.resid[i])

(***************************************************************************)
(* C8                                                                       *)
(***************************************************************************)
SameIgnoringCase(a, b) ==
    Len(a) = Len(b) /\ \A i \in 1..Len(a) : CharFold(a[i]) = CharFold(b[i])

Synonyms(a, b) ==
    \E cls \in {{S_grav, S_logg}, {S_feh, S_monh}} :
        Casefold(a) \in cls /\ Casefold(b) \in cls

SameParameter(a, b) == SameIgnoringCase(a, b) \/ Synonyms(a, b)

FirstOccurrences(raw) ==
    {i \in DOMAIN raw : \A j \in 1..(i - 1) : ~SameParameter(raw[j], raw[i])}

NthSmallest(S, k) == CHOOSE i \in S : Cardinality({j \in S : j < i}) = k - 1

IsCanonical(p) ==
    /\ p \notin {S_grav, S_feh}
    /\ IF SameIgnoringCase(Last5(p), S_abund)
       THEN IsUpper(p[1]) /\ \A i \in 2..Len(p) : ~IsUpper(p[i])
       ELSE \A i \in 1..Len(p) : ~IsUpper(p[i])

\* C8: for every list of names the fitted parameter list holds the canonical
\* names in order of first occurrence, each exactly once: names that differ
\* only in case, and the synonyms grav (logg) and feh (monh), collapse to one
\* entry placed where the first of them occurred.
C8_CanonicalFirstOccurrenceOrder ==
    nn.done =>
        /\ Len(nn.out) = Cardinality(FirstOccurrences(nn.raw))
        /\ \A k \in 1..Len(nn.out) :
              /\ IsCanonical(nn.out[k])
              /\ SameParameter(nn.out[k], nn.raw[NthSmallest(FirstOccurrences(nn.raw), k)])

\* a synonym pair collapses onto a first place that sorting would not give it
C8_Witness ==
    /\ nn.done /\ Len(nn.raw) = 3 /\ Len(nn.out) = 2
    /\ nn.raw[1] = S_feh /\ nn.raw[3] = S_monh
    /\ nn.out[1] = S_monh /\ LexLess(nn.out[2], nn.out[1])

(***************************************************************************)
(* C9                                                                       *)
(***************************************************************************)
SolvePassedAssertions == outcome.by = "solve" /\ outcome.kind # "AssertionError"

\* C9: when the normalised list holds "vrad" (or "cont"), solve removes the
\* name from the fitted parameters, switches Model State to per-segment
\* radial-velocity fitting (or to continuum fitting) and goes on to fit the
\* remaining parameters.
C9_SpecialNamesToggleModes ==
    /\ (SolvePassedAssertions /\ Contains(NormalizeNames(outcome.rawnames), S_vrad)) =>
          /\ outcome.kind # "AttributeError"
          /\ sme.vrad_flag = "each"
          /\ ~Contains(fit.names, S_vrad)
    /\ (SolvePassedAssertions /\ Contains(NormalizeNames(outcome.rawnames), S_cont)) =>
          /\ outcome.kind # "AttributeError"
          /\ sme.cscale_flag # "none"
          /\ ~Contains(fit.names, S_cont)

(***************************************************************************)
(* C10                                                                      *)
(***************************************************************************)
FatalPrecondition == outcome.by = "solve" /\ outcome.kind \in {"AssertionError", "IOError"}

\* C10 as claimed: a fatal precondition violation detected by solve (no
\* wavelength, no observed flux, unrecognised atmosphere source format)
\* aborts solve before any engine operation and before any field of Model
\* State has changed.
C10_AbortLeavesModelStateUntouched ==
    FatalPrecondition => (call.nops = outcome.ops0 /\ sme = outcome.sme0)

\* C10 as amended: such a violation aborts solve before any engine
\* operation; a missing wavelength or observed flux aborts it before any
\* field of Model State has changed, an unrecognised atmosphere source format
\* after at most the uncertainties, when absent, were filled in with ones.
C10_AbortBeforeEngineUncsMayBeFilled ==
    FatalPrecondition =>
        /\ call.nops = outcome.ops0
        /\ outcome.kind = "AssertionError" => sme = outcome.sme0
        /\ outcome.kind = "IOError" => sme = [outcome.sme0 EXCEPT !.has_uncs = TRUE]

\* solve aborted on the atmosphere format after filling in the uncertainties
C10_Witness ==
    /\ outcome.by = "solve" /\ outcome.kind = "IOError"
    /\ ~outcome.sme0.has_uncs /\ sme.has_uncs

(***************************************************************************)
(* C11                                                                      *)
(***************************************************************************)
InSolve == outcome.by = "solve" /\ outcome.kind \in {"running", "returned"} /\ pc # "idle"
SolveReturned == outcome.by = "solve" /\ outcome.kind = "returned"

C12_NoneSuppressesPersistence ==
    (outcome.by = "solve" /\ fit.fname = "None" /\ fit.nfev >= 1) =>
        /\ outcome.kind # "AttributeError"
        /\ call.saves = 0

(***************************************************************************)
(* C13                                                                      *)
(***************************************************************************)
\* C13: after solve the stored reduced chi-square equals
\* 2*cost/(n_points - n_parameters), n_points being the number of points of
\* the fit: the points of the requested segments that the mask keeps.
C13_ReducedChisqOverFitPoints ==
    (pf.done /\ FitPoints(pf.mask, pf.segs) > pf.nparam) =>
        pf.chisq = [num |-> 2 * pf.cost,
                    den |-> FitPoints(pf.mask, pf.segs) - pf.nparam]

(***************************************************************************)
(* C14                                                                      *)
(***************************************************************************)
\* C14: for every intrinsic grid of at least two strictly increasing
\* wavelengths new_wavelength_grid returns a grid with an odd number of
\* points whose first and last wavelengths are the first and last
\* wavelengths of the intrinsic grid.
C14_OddGridWithExactEndpoints ==
    pf.done =>
        /\ pf.raised = "none"
        /\ Len(pf.x_seg) % 2 = 1
        /\ pf.x_seg[1] = pf.wint[1]
        /\ pf.x_seg[Len(pf.x_seg)] = pf.wint[Len(pf.wint)]

(***************************************************************************)
(* C15                                                                      *)
(***************************************************************************)
\* C15: the velocity step new_wavelength_grid sizes the output grid with is
\* the maximum of its three candidates (smallest adjacent spacing, 10% of
\* the mean dispersion, the 0.05 km/s floor): it is one of them and it is
\* not below any of them.
C15_StepIsLargestCandidate ==
    pf.done =>
        /\ \E i \in 1..3 : pf.sizing = pf.candidates[i]
        /\ \A i \in 1..3 : pf.sizing >= pf.candidates[i]
        /\ pf.candidates[3] = vstep3

\* a grid whose mean dispersion decides: 10% of it is above the floor and
\* above the smallest spacing
C15_Witness ==
    /\ pf.done
    /\ pf.candidates[2] > pf.candidates[1]
    /\ pf.candidates[2] > pf.candidates[3]
    /\ pf.sizing = pf.candidates[2]

(***************************************************************************)
(* C16                                                                      *)
(***************************************************************************)
Abs(x) == IF x < 0 THEN -x ELSE x
SameSign(x, y) == (x >= 0 /\ y >= 0) \/ (x <= 0 /\ y <= 0)
NoNarrower(ra, rb) == ra.vbeg <= rb.vbeg /\ ra.vend <= rb.vend

IdentityPolynomial(c) ==
    /\ ~c.none /\ Len(c.v) >= 1
    /\ c.v[Len(c.v)] = 1
    /\ \A i \in 1..(Len(c.v) - 1) : c.v[i] = 0

\* C17: for a segment whose reconciled radial velocity is 0 and whose
\* continuum polynomial is the identity, the wavelength rescaling factor is
\* 1 and the continuum multiplier is 1 at every sample of the output
\* wavelength array, so the flux written is the Composer's flux resampled.
C17_ZeroVelocityIdentityContinuum ==
    (pf.done /\ pf.vrad = Given(0) /\ IdentityPolynomial(pf.cscale)) =>
        /\ pf.factor2.num = pf.factor2.den
        /\ \A i \in DOMAIN pf.mult : pf.mult[i] = 1

\* velocity 0 and the identity of a linear continuum, over several samples
C17_Witness ==
    /\ pf.done /\ pf.vrad = Given(0) /\ pf.cscale = Given(<<0, 1>>)
    /\ pf.shifted /\ pf.scaled /\ Len(pf.wave) = 3

(***************************************************************************)
(* C18                                                                      *)
(***************************************************************************)
\* C18: synthesize_spectrum called twice in a row on the same Model State,
\* no parameter changed by the caller in between, leaves the same synthetic
\* flux in every requested segment after the second call as after the first.
C18_SecondCallSameFlux ==
    Len(pf.hist) >= 2 =>
        \A i \in DOMAIN pf.segs : pf.hist[2][pf.segs[i]] = pf.hist[1][pf.segs[i]]

(***************************************************************************)
(* C19                                                                      *)
(***************************************************************************)
\* the grid-mode calls before call k, and those of them that returned
GridCallsBefore(k) == {j \in 1..(k - 1) : pf.hist[j].method = "grid"}
GridReturnsBefore(k) == {j \in GridCallsBefore(k) : pf.hist[j].raised = "none"}
LastOf(S) == CHOOSE j \in S : \A i \in S : i <= j

OutOfRangeLists ==
    { segs \in SynthSegments :
        ~segs.all /\ \E i \in DOMAIN segs.idx : segs.idx[i] \notin SegIdx }

\* a step that ends in IndexError with no engine operation issued and the
\* output arrays of the Model State as they were
FailedBeforeEngine ==
    /\ outcome'.kind = "IndexError"
    /\ call'.log = <<>> /\ call'.nops = call.nops
    /\ sme'.wint = sme.wint /\ sme'.has_wint = sme.has_wint
    /\ sme'.has_wave = sme.has_wave

\* C22: synthesize_spectrum called with an explicit list of segments that
\* holds an index below 0 or at or above the segment count fails with
\* IndexError before any engine operation is issued and before any output
\* array of the Model State (wave, wint) is changed: every step is such a
\* failure, or else is the step of no call with such a list.
C22_OutOfRangeFailsBeforeEngine ==
    [][\/ FailedBeforeEngine
       \/ ~\E segs \in OutOfRangeLists, inGrid \in BOOLEAN : Synthesize(segs, inGrid)]_vars

\* a list out of range turned down after a call that had filled the arrays
C22_Witness ==
    /\ outcome.kind = "IndexError" /\ outcome.calls = 2
    /\ call.log = <<>> /\ call.nops > 0
    /\ sme.has_wint /\ sme.wint # NoWint

(***************************************************************************)
(* C21                                                                      *)
(***************************************************************************)
\* the stored wavelengths and flux of segment s
WaveOf(s) == SegmentOf(pf.wob, pf.wind, s)
SynthOf(s) == SegmentOf(pf.smod, pf.wind, s)

\* C21: the first synthesis of a segment without output wavelength array
\* creates one from the lower to the upper nominal bound of the segment with
\* the interior samples strictly between them; every later synthesis leaves
\* it unchanged; after every synthesis the flux of each requested segment is
\* as long as its wavelength array and the stored offsets are the
\* cumulative sums of the segment lengths.
C21_OutputArraysConsistent ==
    (pf.calls > 0 /\ pf.raised = "none") =>
        /\ \A s \in SegIdx :
              pf.made[s] # <<>> =>
                  /\ WaveOf(s) = pf.made[s]
                  /\ pf.made[s][1] = Wran(s)[1]
                  /\ pf.made[s][Len(pf.made[s])] = Wran(s)[2]
                  /\ \A i \in 2..(Len(pf.made[s]) - 1) :
                        pf.made[s][i] > Wran(s)[1] /\ pf.made[s][i] < Wran(s)[2]
        /\ \A i \in DOMAIN pf.segs : Len(SynthOf(pf.segs[i])) = Len(WaveOf(pf.segs[i]))
        /\ pf.wind[0] = 0
        /\ \A s \in SegIdx : pf.wind[s + 1] = pf.wind[s] + Len(WaveOf(s))

====
